---- MODULE Spec2Model ----
(***************************************************************************)
(* A model of the SqlCRUD derive macro: the extractor that turns a struct  *)
(* declaration into a ParsedStruct (parser.rs, utils.rs), the SQL          *)
(* generator (sql_generator.rs), the method generator (code_generator.rs)  *)
(* and the monolithic derive entry point (lib.rs).                         *)
(*                                                                         *)
(* Text.  A Rust String is modelled as a sequence of pieces; format! and   *)
(* push_str are concatenation (\o), so a literal of the source may be cut  *)
(* into several pieces without changing the text it stands for.  The       *)
(* contents of comments are sequences of single characters, so that trim   *)
(* and replace act on them character by character.                         *)
(*                                                                         *)
(* Option<T> is a sequence of length at most one: <<>> is None and <<v>>   *)
(* is Some(v).                                                             *)
(***************************************************************************)
EXTENDS Integers, Sequences, FiniteSets, TLC

VARIABLES
    pc,       \* "input" | "parsed" | "done" | "panicked"
    input,    \* the DeriveInput handed to the macro
    parsed,   \* Option<ParsedStruct>: the result of parse_struct
    result,   \* what the last generator call produced (or its panic)
    store,    \* the names of the tables of the store the generated init runs on
    init,     \* the call of the generated init in progress
    log       \* the calls of init that have returned, oldest first

\* the state of the generated code at run time
runtime == <<store, init, log>>

vars == <<pc, input, parsed, result, store, init, log>>

--------------------------------------------------------------------------
(* Bounds of the model. *)

\* the largest number of named fields of a struct
MaxFields == 3

\* the largest number of attributes on the field of the attribute-level
\* specification SpecField
MaxAttrs == 3

\* the largest number of calls of the generated init, one after the other
MaxCalls == 3

--------------------------------------------------------------------------
(* Option and text helpers. *)

None == <<>>

Some(v) == <<v>>

IsSome(o) == o # <<>>

Unwrap(o) == o[1]

\* Vec<String>::join(sep)
RECURSIVE Join(_, _)
Join(ss, sep) ==
    IF ss = <<>> THEN <<>>
    ELSE IF Len(ss) = 1 THEN ss[1]
    ELSE ss[1] \o sep \o Join(Tail(ss), sep)

\* char::is_whitespace, on the characters the model uses
IsWhitespace(c) == c \in {" ", "\t", "\n"}

RECURSIVE TrimStart(_)
TrimStart(s) ==
    IF s # <<>> /\ IsWhitespace(Head(s)) THEN TrimStart(Tail(s)) ELSE s

RECURSIVE TrimEnd(_)
TrimEnd(s) ==
    IF s # <<>> /\ IsWhitespace(s[Len(s)])
    THEN TrimEnd(SubSeq(s, 1, Len(s) - 1))
    ELSE s

\* str::trim
Trim(s) == TrimEnd(TrimStart(s))

\* str::replace('\'', "''")
RECURSIVE ReplaceQuote(_)
ReplaceQuote(s) ==
    IF s = <<>> THEN <<>>
    ELSE IF Head(s) = "'" THEN <<"'", "'">> \o ReplaceQuote(Tail(s))
    ELSE <<Head(s)>> \o ReplaceQuote(Tail(s))

\* char::to_lowercase, on the letters the model uses
LowerChar(c) ==
    CASE c = "U" -> "u"
      [] c = "E" -> "e"
      [] OTHER   -> c

\* str::to_lowercase
ToLowercase(s) == [i \in 1..Len(s) |-> LowerChar(s[i])]

--------------------------------------------------------------------------
(* Attributes (syn::Attribute).  meta is what attr.parse_meta() yields:    *)
(* "NameValueStr" is Ok(Meta::NameValue) with a Lit::Str, whose value is   *)
(* `value`; every other meta ("NameValueOther", "List", "Path") carries no *)
(* string.                                                                 *)

Attr(path, meta, value) == [path |-> path, meta |-> meta, value |-> value]

\* if let Ok(Meta::NameValue(meta)) = attr.parse_meta()
\*     { if let Lit::Str(lit_str) = meta.lit { ... } }
IsNameValueStr(attr) == attr.meta = "NameValueStr"

\* utils.rs, extract_comment: the loop over the attributes, carrying
\* `comments` and `explicit_comment`.  (lib.rs lines 9-42 repeat this
\* function word for word.)
RECURSIVE extract_comment_loop(_, _, _)
extract_comment_loop(attrs, comments, explicit_comment) ==
    IF attrs = <<>>
    THEN [comments |-> comments, explicit_comment |-> explicit_comment]
    ELSE LET attr == Head(attrs) IN
         IF attr.path = "comment"
         THEN extract_comment_loop(
                  Tail(attrs), comments,
                  IF IsNameValueStr(attr) THEN Some(attr.value)
                  ELSE explicit_comment)
         ELSE IF attr.path = "doc" /\ IsNameValueStr(attr)
         THEN extract_comment_loop(
                  Tail(attrs), Append(comments, Trim(attr.value)),
                  explicit_comment)
         ELSE extract_comment_loop(Tail(attrs), comments, explicit_comment)

\* extract_comment with the documentation lines tried before the explicit
\* comment
extract_comment_doc_first(attrs) ==
    LET r == extract_comment_loop(attrs, <<>>, None) IN
    IF r.comments # <<>> THEN Some(Join(r.comments, <<" ">>))
    ELSE r.explicit_comment

\* utils.rs, extract_comment
extract_comment(attrs) ==
    LET r == extract_comment_loop(attrs, <<>>, None) IN
    IF IsSome(r.explicit_comment) THEN r.explicit_comment
    ELSE IF r.comments = <<>> THEN None
    ELSE Some(Join(r.comments, <<" ">>))

(* Types (syn::Type).  kind "Path" is Type::Path, whose path has the       *)
(* idents `segments` (at least one); every other kind (a reference, a      *)
(* tuple, an array) has no segments.                                       *)

Ty(kind, segments) == [kind |-> kind, segments |-> segments]

\* map_type_to_sql matching Uuid whatever its case
map_type_to_sql_any_case(ty) ==
    IF ty.kind = "Path"
    THEN LET ident == ty.segments[Len(ty.segments)] IN
         CASE ident = "i32"              -> <<"INT">>
           [] ident = "i64"              -> <<"BIGINT">>
           [] ident = "String"           -> <<"VARCHAR(255)">>
           [] ident = "bool"             -> <<"BOOLEAN">>
           [] ident = "f32"              -> <<"FLOAT">>
           [] ident = "f64"              -> <<"DOUBLE">>
           [] ident = "NaiveDateTime"    -> <<"DATETIME">>
           [] ident \in {"Uuid", "uuid"} -> <<"UUID">>
           [] OTHER                      -> <<ident>>
    ELSE <<"TEXT">>

\* utils.rs, map_type_to_sql  (lib.rs lines 45-63 repeat it)
map_type_to_sql(ty) ==
    IF ty.kind = "Path"
    THEN LET ident == ty.segments[Len(ty.segments)] IN
         CASE ident = "i32"           -> <<"INT">>
           [] ident = "i64"           -> <<"BIGINT">>
           [] ident = "String"        -> <<"VARCHAR(255)">>
           [] ident = "bool"          -> <<"BOOLEAN">>
           [] ident = "f32"           -> <<"FLOAT">>
           [] ident = "f64"           -> <<"DOUBLE">>
           [] ident = "NaiveDateTime" -> <<"DATETIME">>
           [] ident = "Uuid"          -> <<"UUID">>
           [] OTHER                   -> <<ident>>
    ELSE <<"TEXT">>

\* utils.rs, get_table_name  (lib.rs lines 66-77 repeat it)
RECURSIVE get_table_name(_, _)
get_table_name(attrs, default) ==
    IF attrs = <<>> THEN ToLowercase(default)
    ELSE IF Head(attrs).path = "table_name" /\ IsNameValueStr(Head(attrs))
    THEN Head(attrs).value
    ELSE get_table_name(Tail(attrs), default)

--------------------------------------------------------------------------
(* parser.rs *)

\* the loop of parse_field over the attributes that sets `sql_type`
RECURSIVE parse_field_sql_type(_, _)
parse_field_sql_type(attrs, sql_type) ==
    IF attrs = <<>> THEN sql_type
    ELSE LET attr == Head(attrs) IN
         parse_field_sql_type(
             Tail(attrs),
             IF attr.path = "sql_type" /\ IsNameValueStr(attr)
             THEN Some(attr.value) ELSE sql_type)

\* field.attrs.iter().any(|attr| attr.path.is_ident("primary_key"))
HasPrimaryKeyAttr(attrs) ==
    \E i \in 1..Len(attrs) : attrs[i].path = "primary_key"

\* parser.rs, parse_field
parse_field(field) ==
    LET sql_type == parse_field_sql_type(field.attrs, None) IN
    [ name           |-> field.ident,
      ty             |-> field.ty,
      sql_type       |-> IF IsSome(sql_type) THEN Unwrap(sql_type)
                         ELSE map_type_to_sql(field.ty),
      is_primary_key |-> HasPrimaryKeyAttr(field.attrs),
      comment        |-> extract_comment(field.attrs) ]

(* A DeriveInput: ident (the characters of the struct's name), attrs, and  *)
(* data = [kind, fields], kind being "StructNamed" (Data::Struct with      *)
(* Fields::Named), "StructUnnamed", "StructUnit", "Enum" or "Union".       *)

\* parser.rs, parse_struct: Some(ParsedStruct), or None when it panics
parse_struct(inp) ==
    IF inp.data.kind = "StructNamed"
    THEN Some([ name       |-> inp.ident,
                table_name |-> get_table_name(inp.attrs, inp.ident),
                fields     |-> [i \in 1..Len(inp.data.fields) |->
                                   parse_field(inp.data.fields[i])],
                comment    |-> extract_comment(inp.attrs) ])
    ELSE None

\* the message parse_struct panics with
parse_struct_panic(inp) ==
    IF inp.data.kind \in {"StructUnnamed", "StructUnit"}
    THEN "Only structs with named fields are supported"
    ELSE "Only structs are supported"

--------------------------------------------------------------------------
(* sql_generator.rs.  A generator yields [status, msg, sql]: status "ok"   *)
(* with the statement, or "panic" with the message of the expect that      *)
(* failed.                                                                 *)

Ok(sql) == [status |-> "ok", msg |-> "", sql |-> sql]

Panic(msg) == [status |-> "panic", msg |-> msg, sql |-> <<>>]

\* parsed.fields.iter().find(|f| f.is_primary_key)
find_primary_key(fields) ==
    LET pks == SelectSeq(fields, LAMBDA f : f.is_primary_key) IN
    IF pks = <<>> THEN None ELSE Some(Head(pks))

\* parsed.fields.iter().filter(|f| !f.is_primary_key)
non_pk_fields(fields) == SelectSeq(fields, LAMBDA f : ~f.is_primary_key)

\* parsed.fields.iter().map(|f| f.name.clone()).collect().join(", ")
column_names(fields) ==
    Join([i \in 1..Len(fields) |-> <<fields[i].name>>], <<", ">>)

\* comment_literal without the replace
comment_literal_unescaped(comment) ==
    <<" COMMENT ", "'">> \o comment \o <<"'">>

\* format!(" COMMENT '{}'", comment.replace('\'', "''"))
comment_literal(comment) ==
    <<" COMMENT ", "'">> \o ReplaceQuote(comment) \o <<"'">>

\* the body of the loop of generate_create_table_sql: one column
create_table_column(field) ==
    <<"    ", field.name, " ">> \o field.sql_type
    \o (IF field.is_primary_key THEN <<" PRIMARY KEY">> ELSE <<>>)
    \o (IF IsSome(field.comment) THEN comment_literal(Unwrap(field.comment))
        ELSE <<>>)

\* generate_create_table_sql with the separator pushed after every column
\* instead of joining the columns with it
generate_create_table_sql_trailing_separator(p) ==
    Ok( <<"CREATE TABLE IF NOT EXISTS ">> \o p.table_name \o <<" (\n">>
        \o Join([i \in 1..Len(p.fields) |->
                    create_table_column(p.fields[i]) \o <<",\n">>], <<>>)
        \o <<"\n)">>
        \o (IF IsSome(p.comment) THEN comment_literal(Unwrap(p.comment))
            ELSE <<>>)
        \o <<";">> )

\* sql_generator.rs, generate_create_table_sql
generate_create_table_sql(p) ==
    Ok( <<"CREATE TABLE IF NOT EXISTS ">> \o p.table_name \o <<" (\n">>
        \o Join([i \in 1..Len(p.fields) |-> create_table_column(p.fields[i])],
                <<",\n">>)
        \o <<"\n)">>
        \o (IF IsSome(p.comment) THEN comment_literal(Unwrap(p.comment))
            ELSE <<>>)
        \o <<";">> )

\* generate_insert_sql with the placeholders numbered i instead of i + 1
generate_insert_sql_from_zero(p) ==
    LET columns == column_names(p.fields)
        placeholders ==
            Join([i \in 1..Len(p.fields) |-> <<"$", ToString(i - 1)>>],
                 <<", ">>)
    IN Ok( <<"INSERT INTO ">> \o p.table_name \o <<" (">> \o columns
           \o <<") VALUES (">> \o placeholders \o <<");">> )

\* sql_generator.rs, generate_insert_sql.  enumerate() counts from 0 and the
\* placeholder is i + 1; the sequences here count from 1.
generate_insert_sql(p) ==
    LET columns == column_names(p.fields)
        placeholders ==
            Join([i \in 1..Len(p.fields) |-> <<"$", ToString(i)>>], <<", ">>)
    IN Ok( <<"INSERT INTO ">> \o p.table_name \o <<" (">> \o columns
           \o <<") VALUES (">> \o placeholders \o <<");">> )

\* generate_update_sql with pk_index lacking its "+ 1"
generate_update_sql_pk_index_short(p) ==
    LET primary_key == find_primary_key(p.fields)
        nonpk       == non_pk_fields(p.fields)
        set_clauses ==
            Join([i \in 1..Len(nonpk) |->
                     <<nonpk[i].name, " = ", "$", ToString(i)>>], <<", ">>)
        pk_index    == Len(nonpk)
    IN IF ~IsSome(primary_key) THEN Panic("No primary key defined")
       ELSE Ok( <<"UPDATE ">> \o p.table_name \o <<" SET ">> \o set_clauses
                \o <<" WHERE ", Unwrap(primary_key).name, " = ", "$",
                     ToString(pk_index), ";">> )

\* sql_generator.rs, generate_update_sql
generate_update_sql(p) ==
    LET primary_key == find_primary_key(p.fields)
        nonpk       == non_pk_fields(p.fields)
        set_clauses ==
            Join([i \in 1..Len(nonpk) |->
                     <<nonpk[i].name, " = ", "$", ToString(i)>>], <<", ">>)
        pk_index    == Len(nonpk) + 1
    IN IF ~IsSome(primary_key) THEN Panic("No primary key defined")
       ELSE Ok( <<"UPDATE ">> \o p.table_name \o <<" SET ">> \o set_clauses
                \o <<" WHERE ", Unwrap(primary_key).name, " = ", "$",
                     ToString(pk_index), ";">> )

\* sql_generator.rs, generate_delete_sql
generate_delete_sql(p) ==
    LET primary_key == find_primary_key(p.fields) IN
    IF ~IsSome(primary_key) THEN Panic("No primary key defined")
    ELSE Ok( <<"DELETE FROM ">> \o p.table_name
             \o <<" WHERE ", Unwrap(primary_key).name, " = ", "$", "1", ";">> )

\* sql_generator.rs, generate_select_sql
generate_select_sql(p) ==
    Ok( <<"SELECT ">> \o column_names(p.fields) \o <<" FROM ">>
        \o p.table_name \o <<";">> )

\* sql_generator.rs, generate_select_by_id_sql
generate_select_by_id_sql(p) ==
    LET primary_key == find_primary_key(p.fields) IN
    IF ~IsSome(primary_key) THEN Panic("No primary key defined")
    ELSE Ok( <<"SELECT ">> \o column_names(p.fields) \o <<" FROM ">>
             \o p.table_name
             \o <<" WHERE ", Unwrap(primary_key).name, " = ", "$", "1", ";">> )

--------------------------------------------------------------------------
(* code_generator.rs.  A generated method is [sql, binds]: the statement   *)
(* it runs and the values it binds, in order; a bound value is a field of  *)
(* self or the method's `id` argument.  A method generator yields          *)
(* [status, msg, methods], methods mapping method names to methods.        *)

SelfField(name) == [src |-> "self", name |-> name]

IdArg == [src |-> "arg", name |-> "id"]

Method(sql, binds) == [sql |-> sql, binds |-> binds]

NoMethods == [m \in {} |-> Method(<<>>, <<>>)]

NoStmts == [m \in {} |-> <<>>]

MethodsOk(methods) == [status |-> "ok", msg |-> "", methods |-> methods]

MethodsPanic(msg) == [status |-> "panic", msg |-> msg, methods |-> NoMethods]

\* code_generator.rs, generate_init_table_method
generate_init_table_method(p) ==
    LET create_table_sql == generate_create_table_sql(p) IN
    MethodsOk("init_table" :> Method(create_table_sql.sql, <<>>))

\* code_generator.rs, generate_insert_method
generate_insert_method(p) ==
    LET insert_sql  == generate_insert_sql(p)
        field_names == [i \in 1..Len(p.fields) |-> SelfField(p.fields[i].name)]
    IN MethodsOk(   "insert"     :> Method(insert_sql.sql, field_names)
                 @@ "insert_one" :> Method(insert_sql.sql, field_names))

\* code_generator.rs, generate_update_method
generate_update_method(p) ==
    LET update_sql == generate_update_sql(p)
        nonpk      == non_pk_fields(p.fields)
        non_pk     == [i \in 1..Len(nonpk) |-> SelfField(nonpk[i].name)]
        pk_field   == find_primary_key(p.fields)
    IN IF update_sql.status = "panic" THEN MethodsPanic(update_sql.msg)
       ELSE IF ~IsSome(pk_field) THEN MethodsPanic("No primary key defined")
       ELSE MethodsOk("update" :>
                Method(update_sql.sql,
                       non_pk \o <<SelfField(Unwrap(pk_field).name)>>))

\* code_generator.rs, generate_delete_method
generate_delete_method(p) ==
    LET delete_sql == generate_delete_sql(p)
        pk_field   == find_primary_key(p.fields)
    IN IF delete_sql.status = "panic" THEN MethodsPanic(delete_sql.msg)
       ELSE IF ~IsSome(pk_field) THEN MethodsPanic("No primary key defined")
       ELSE MethodsOk(
                   "delete" :>
                       Method(delete_sql.sql,
                              <<SelfField(Unwrap(pk_field).name)>>)
                @@ "delete_by_id" :> Method(delete_sql.sql, <<IdArg>>))

\* code_generator.rs, generate_select_methods
generate_select_methods(p) ==
    LET select_sql       == generate_select_sql(p)
        select_by_id_sql == generate_select_by_id_sql(p)
        pk_field         == find_primary_key(p.fields)
    IN IF select_by_id_sql.status = "panic"
       THEN MethodsPanic(select_by_id_sql.msg)
       ELSE IF ~IsSome(pk_field) THEN MethodsPanic("No primary key defined")
       ELSE MethodsOk(   "find_all"   :> Method(select_sql.sql, <<>>)
                      @@ "find_by_id" :> Method(select_by_id_sql.sql,
                                                <<IdArg>>))

\* code_generator.rs, generate_impl_block: the five generators run in this
\* order, and the first panic ends the expansion with nothing generated
generate_impl_block(p) ==
    LET init_table_method == generate_init_table_method(p)
        insert_method     == generate_insert_method(p)
        update_method     == generate_update_method(p)
        delete_method     == generate_delete_method(p)
        select_methods    == generate_select_methods(p)
    IN IF update_method.status = "panic"
       THEN MethodsPanic(update_method.msg)
       ELSE IF delete_method.status = "panic"
       THEN MethodsPanic(delete_method.msg)
       ELSE IF select_methods.status = "panic"
       THEN MethodsPanic(select_methods.msg)
       ELSE MethodsOk(   init_table_method.methods @@ insert_method.methods
                      @@ update_method.methods @@ delete_method.methods
                      @@ select_methods.methods)

--------------------------------------------------------------------------
(* lib.rs, the derive entry point: one pass from the DeriveInput to the    *)
(* statements and the methods that run them.                               *)

\* lib.rs, sql_crud_derive: the SQL type of a column
lib_sql_type(field) ==
    LET found == SelectSeq(field.attrs, LAMBDA a : a.path = "sql_type") IN
    IF found # <<>> /\ IsNameValueStr(Head(found)) THEN Head(found).value
    ELSE map_type_to_sql(field.ty)

\* lib.rs, sql_crud_derive: column_def of one field
lib_column_def(field) ==
    LET comment == extract_comment(field.attrs) IN
    <<field.ident, " ">> \o lib_sql_type(field)
    \o (IF IsSome(comment) THEN comment_literal(Unwrap(comment)) ELSE <<>>)

\* lib.rs, sql_crud_derive: the names pushed to primary_keys
lib_primary_keys(fields) ==
    LET pk == SelectSeq(fields, LAMBDA f : HasPrimaryKeyAttr(f.attrs)) IN
    [i \in 1..Len(pk) |-> pk[i].ident]

\* lib.rs, sql_crud_derive: create_table_sql
lib_create_table_sql(table_name, table_comment, fields) ==
    LET columns         == [i \in 1..Len(fields) |-> lib_column_def(fields[i])]
        primary_keys    == lib_primary_keys(fields)
        primary_key_def ==
            IF primary_keys # <<>>
            THEN <<",\n", "    ", "PRIMARY KEY (">>
                 \o Join([i \in 1..Len(primary_keys) |-> <<primary_keys[i]>>],
                         <<", ">>)
                 \o <<")">>
            ELSE <<>>
        table_comment_def ==
            IF IsSome(table_comment) THEN comment_literal(Unwrap(table_comment))
            ELSE <<>>
    IN <<"CREATE TABLE ">> \o table_name \o <<" (\n", "    ">>
       \o Join(columns, <<",\n", "    ">>) \o primary_key_def
       \o <<"\n)">> \o table_comment_def \o <<";">>

\* lib.rs, sql_crud_derive: the set_param calls of a list of fields
lib_params(fields) == [i \in 1..Len(fields) |-> SelfField(fields[i].ident)]

\* lib.rs, sql_crud_derive
sql_crud_derive(inp) ==
    IF inp.data.kind # "StructNamed"
    THEN [status |-> "panic", msg |-> parse_struct_panic(inp),
          stmts |-> NoStmts, methods |-> NoMethods]
    ELSE
    LET fields        == inp.data.fields
        table_comment == extract_comment(inp.attrs)
        table_name    == get_table_name(inp.attrs, inp.ident)
        primary_keys  == lib_primary_keys(fields)
        check_table_sql ==
            <<"SELECT name FROM sqlite_master \n         WHERE type='table' AND name='">>
            \o table_name \o <<"'">>
        insert_fields ==
            Join([i \in 1..Len(fields) |-> <<fields[i].ident>>], <<", ">>)
        insert_values == Join([i \in 1..Len(fields) |-> <<"?">>], <<", ">>)
        insert_sql ==
            <<"INSERT INTO ">> \o table_name \o <<" (">> \o insert_fields
            \o <<") VALUES (">> \o insert_values \o <<")">>
        select_sql ==
            <<"SELECT ">> \o insert_fields \o <<" FROM ">> \o table_name
        not_key == SelectSeq(fields, LAMBDA f :
                       \A i \in 1..Len(primary_keys) : primary_keys[i] # f.ident)
        update_fields ==
            Join([i \in 1..Len(not_key) |-> <<not_key[i].ident, " = ", "?">>],
                 <<", ">>)
        where_clause ==
            Join([i \in 1..Len(primary_keys) |-> <<primary_keys[i], " = ", "?">>],
                 <<" AND ">>)
        update_sql ==
            <<"UPDATE ">> \o table_name \o <<" SET ">> \o update_fields
            \o <<" WHERE ">> \o where_clause
        delete_sql ==
            <<"DELETE FROM ">> \o table_name \o <<" WHERE ">> \o where_clause
        select_key_sql ==
            <<"SELECT ">> \o insert_fields \o <<" FROM ">> \o table_name
            \o <<" WHERE ">> \o where_clause
        key_params ==
            lib_params(SelectSeq(fields, LAMBDA f : HasPrimaryKeyAttr(f.attrs)))
        nokey_params ==
            lib_params(SelectSeq(fields, LAMBDA f : ~HasPrimaryKeyAttr(f.attrs)))
    IN [ status |-> "ok", msg |-> "",
         stmts |->
                "check_table_sql"  :> check_table_sql
             @@ "create_table_sql" :>
                    lib_create_table_sql(table_name, table_comment, fields)
             @@ "insert_sql"       :> insert_sql
             @@ "select_all_sql"   :> select_sql
             @@ "select_key_sql"   :> select_key_sql
             @@ "update_sql"       :> update_sql
             @@ "delete_sql"       :> delete_sql,
         methods |->
                "insert" :> Method(insert_sql, key_params \o nokey_params)
             @@ "update" :> Method(update_sql, nokey_params \o key_params)
             @@ "delete" :> Method(delete_sql, key_params)
             @@ "query"  :> Method(select_key_sql, key_params) ]

--------------------------------------------------------------------------
(* The inputs the specifications draw from. *)

PrimaryKeyAttr == Attr("primary_key", "Path", <<>>)

\* the name of the i-th declared field
FieldName(i) == <<"f1", "f2", "f3", "f4", "f5", "f6">>[i]

\* the type of the i-th declared field
FieldType(i) ==
    <<Ty("Path", <<"i64">>), Ty("Path", <<"String">>), Ty("Path", <<"bool">>),
      Ty("Reference", <<>>), Ty("Path", <<"Uuid">>), Ty("Path", <<"f64">>)>>[i]

\* the comment attributes of a field of Spec: none, an explicit comment
\* with a quote inside, a documentation line that is one quote
FieldCommentChoices ==
    { <<>>,
      <<Attr("comment", "NameValueStr", <<"x", "'", "y">>)>>,
      <<Attr("doc", "NameValueStr", <<" ", "'">>)>> }

FieldAttrChoices ==
    { pk \o c : pk \in {<<>>, <<PrimaryKeyAttr>>}, c \in FieldCommentChoices }

\* the attributes of the struct of Spec
StructAttrChoices ==
    { <<>>,
      <<Attr("comment", "NameValueStr", <<"'", "'", "z">>)>>,
      <<Attr("table_name", "NameValueStr", <<"users">>),
        Attr("doc", "NameValueStr", <<" ", "a", "'", "s">>)>> }

StructIdent == <<"U", "s", "e", "r">>

NamedFields(attrsOf) ==
    [i \in DOMAIN attrsOf |->
        [ident |-> FieldName(i), ty |-> FieldType(i), attrs |-> attrsOf[i]]]

\* the DeriveInputs of Spec: a struct of 0..MaxFields named fields, a tuple
\* struct, a unit struct, an enum, a union
DeriveInputs ==
    { [ident |-> StructIdent, attrs |-> a,
       data |-> [kind |-> "StructNamed", fields |-> NamedFields(f)]] :
         a \in StructAttrChoices,
         f \in UNION { [1..n -> FieldAttrChoices] : n \in 0..MaxFields } }
    \cup
    { [ident |-> StructIdent, attrs |-> a,
       data |-> [kind |-> k, fields |-> <<>>]] :
         a \in StructAttrChoices,
         k \in {"StructUnnamed", "StructUnit", "Enum", "Union"} }

\* the attributes a declaration of SpecField may carry
AttrUniverse ==
    { Attr("comment", "NameValueStr", <<"c">>),
      Attr("comment", "NameValueStr", <<" ", "d">>),
      Attr("comment", "List", <<>>),
      Attr("doc", "NameValueStr", <<" ", "x">>),
      Attr("doc", "NameValueStr", <<"y", " ", "z", " ">>),
      Attr("doc", "List", <<>>),
      Attr("sql_type", "NameValueStr", <<"DECIMAL(10,2)">>),
      Attr("sql_type", "NameValueOther", <<>>),
      PrimaryKeyAttr }

\* the native types a field of SpecField may have
TypeUniverse ==
    { Ty("Path", <<id>>) :
        id \in {"i32", "i64", "String", "bool", "f32", "f64", "NaiveDateTime",
                "Uuid", "uuid", "string", "Money", "Option"} }
    \cup { Ty("Path", <<"std", "string", "String">>),
           Ty("Path", <<"chrono", "Money">>) }
    \cup { Ty(k, <<>>) : k \in {"Reference", "Tuple", "Array"} }

\* the DeriveInputs of SpecField: a struct of one named field
FieldInputs ==
    { [ident |-> StructIdent, attrs |-> <<>>,
       data |-> [kind |-> "StructNamed",
                 fields |-> <<[ident |-> FieldName(1), ty |-> t,
                               attrs |-> a]>>]] :
         t \in TypeUniverse,
         a \in UNION { [1..n -> AttrUniverse] : n \in 0..MaxAttrs } }

--------------------------------------------------------------------------
(* The state machine.  The macro is handed a DeriveInput (pc = "input");   *)
(* parse_struct turns it into a ParsedStruct (pc = "parsed") or panics     *)
(* (pc = "panicked"); a generator applied to the ParsedStruct, or the      *)
(* derive entry point applied to the DeriveInput, leaves what it produced  *)
(* in result (pc = "done").                                                *)

NoResult ==
    [op |-> "none", status |-> "none", msg |-> "",
     stmts |-> NoStmts, methods |-> NoMethods]

\* what a generator of sql_generator.rs leaves in result
SqlResult(op, r) ==
    [op |-> op, status |-> r.status, msg |-> r.msg,
     stmts |-> IF r.status = "ok" THEN (op :> r.sql) ELSE NoStmts,
     methods |-> NoMethods]

\* what a generator of code_generator.rs leaves in result
MethodsResult(op, r) ==
    [op |-> op, status |-> r.status, msg |-> r.msg,
     stmts |-> NoStmts, methods |-> r.methods]

\* no call of init in progress
InitIdle == [pc |-> "idle", rows |-> 0, executed |-> <<>>, before |-> {}]

\* before the generated code runs: an empty store and no call of init
NotRunning ==
    /\ store = {}
    /\ init = InitIdle
    /\ log = <<>>

Init ==
    /\ pc = "input"
    /\ input \in DeriveInputs
    /\ parsed = None
    /\ result = NoResult
    /\ NotRunning

InitField ==
    /\ pc = "input"
    /\ input \in FieldInputs
    /\ parsed = None
    /\ result = NoResult
    /\ NotRunning

ParseStruct ==
    /\ pc = "input"
    /\ parsed' = parse_struct(input)
    /\ pc' = IF IsSome(parsed') THEN "parsed" ELSE "panicked"
    /\ result' =
          [NoResult EXCEPT
              !.op = "parse_struct",
              !.status = IF IsSome(parsed') THEN "ok" ELSE "panic",
              !.msg = IF IsSome(parsed') THEN "" ELSE parse_struct_panic(input)]
    /\ UNCHANGED <<input, runtime>>

Generate(r) ==
    /\ pc = "parsed"
    /\ result' = r
    /\ pc' = "done"
    /\ UNCHANGED <<input, parsed, runtime>>

GenerateCreateTableSql ==
    Generate(SqlResult("generate_create_table_sql",
                       generate_create_table_sql(Unwrap(parsed))))

GenerateInsertSql ==
    Generate(SqlResult("generate_insert_sql",
                       generate_insert_sql(Unwrap(parsed))))

GenerateUpdateSql ==
    Generate(SqlResult("generate_update_sql",
                       generate_update_sql(Unwrap(parsed))))

GenerateDeleteSql ==
    Generate(SqlResult("generate_delete_sql",
                       generate_delete_sql(Unwrap(parsed))))

GenerateSelectSql ==
    Generate(SqlResult("generate_select_sql",
                       generate_select_sql(Unwrap(parsed))))

GenerateSelectByIdSql ==
    Generate(SqlResult("generate_select_by_id_sql",
                       generate_select_by_id_sql(Unwrap(parsed))))

GenerateInitTableMethod ==
    Generate(MethodsResult("generate_init_table_method",
                           generate_init_table_method(Unwrap(parsed))))

GenerateInsertMethod ==
    Generate(MethodsResult("generate_insert_method",
                           generate_insert_method(Unwrap(parsed))))

GenerateUpdateMethod ==
    Generate(MethodsResult("generate_update_method",
                           generate_update_method(Unwrap(parsed))))

GenerateDeleteMethod ==
    Generate(MethodsResult("generate_delete_method",
                           generate_delete_method(Unwrap(parsed))))

GenerateSelectMethods ==
    Generate(MethodsResult("generate_select_methods",
                           generate_select_methods(Unwrap(parsed))))

GenerateImplBlock ==
    Generate(MethodsResult("generate_impl_block",
                           generate_impl_block(Unwrap(parsed))))

SqlCrudDerive ==
    /\ pc = "input"
    /\ result' = [op |-> "sql_crud_derive"] @@ sql_crud_derive(input)
    /\ pc' = "done"
    /\ UNCHANGED <<input, parsed, runtime>>

Next ==
    \/ ParseStruct
    \/ GenerateCreateTableSql
    \/ GenerateInsertSql
    \/ GenerateUpdateSql
    \/ GenerateDeleteSql
    \/ GenerateSelectSql
    \/ GenerateSelectByIdSql
    \/ GenerateInitTableMethod
    \/ GenerateInsertMethod
    \/ GenerateUpdateMethod
    \/ GenerateDeleteMethod
    \/ GenerateSelectMethods
    \/ GenerateImplBlock
    \/ SqlCrudDerive

Spec == Init /\ [][Next]_vars

\* the extraction of one field, over every attribute list and native type
NextField == ParseStruct

SpecField == InitField /\ [][NextField]_vars

--------------------------------------------------------------------------
(* Reading a declaration and a statement, for the properties below.  These *)
(* look at the DeriveInput as declared and at the text of a statement, not *)
(* at how the generators built it.                                         *)

Declared == input.data.fields

FieldCount == Len(Declared)

IsNamedStruct == input.data.kind = "StructNamed"

IsKey(field) == \E i \in 1..Len(field.attrs) : field.attrs[i].path = "primary_key"

Idents(fields) == [i \in 1..Len(fields) |-> fields[i].ident]

DeclaredNames == Idents(Declared)

KeyNames == Idents(SelectSeq(Declared, IsKey))

NonKeyNames == Idents(SelectSeq(Declared, LAMBDA f : ~IsKey(f)))

KeyCount == Len(KeyNames)

\* the number of pieces of s equal to piece
Count(s, piece) == Cardinality({i \in 1..Len(s) : s[i] = piece})

Has(s, piece) == \E i \in 1..Len(s) : s[i] = piece

\* the place of the first piece of s equal to piece (0 when there is none)
IndexOf(s, piece) ==
    IF Has(s, piece) THEN CHOOSE i \in 1..Len(s) :
                              s[i] = piece /\ \A j \in 1..(i - 1) : s[j] # piece
    ELSE 0

\* the pieces of s after the first `open` and before the next `close`
Between(s, open, close) ==
    LET rest == SubSeq(s, IndexOf(s, open) + 1, Len(s)) IN
    SubSeq(rest, 1, IndexOf(rest, close) - 1)

\* the pieces of s after the first `open`
After(s, open) == SubSeq(s, IndexOf(s, open) + 1, Len(s))

\* s cut at every piece equal to sep (no parts for the empty text)
RECURSIVE SplitOn(_, _)
SplitOn(s, sep) ==
    IF s = <<>> THEN <<>>
    ELSE IF ~Has(s, sep) THEN <<s>>
    ELSE <<SubSeq(s, 1, IndexOf(s, sep) - 1)>>
         \o (IF IndexOf(s, sep) = Len(s) THEN <<<<>>>>
             ELSE SplitOn(SubSeq(s, IndexOf(s, sep) + 1, Len(s)), sep))

\* a statement without its closing ";" (the statements of lib.rs have none)
Unterminated(sql) ==
    IF sql # <<>> /\ sql[Len(sql)] = ";" THEN SubSeq(sql, 1, Len(sql) - 1)
    ELSE sql

\* UPDATE: the assignments of the SET clause and the conditions of WHERE
SetAssignments(sql) == SplitOn(Between(sql, " SET ", " WHERE "), ", ")

WhereConditions(sql) == SplitOn(After(Unterminated(sql), " WHERE "), " AND ")

\* INSERT: the column list and the placeholder list
InsertColumns(sql) == SplitOn(Between(sql, " (", ") VALUES ("), ", ")

InsertPlaceholders(sql) ==
    LET tail == After(sql, ") VALUES (") IN
    SplitOn(SubSeq(tail, 1, IndexOf(tail, IF Has(tail, ");") THEN ");" ELSE ")") - 1),
            ", ")

\* the last action was op and it ended normally
Did(op) == pc = "done" /\ result.op = op /\ result.status = "ok"

Ran(op) == pc = "done" /\ result.op = op

--------------------------------------------------------------------------
(* C1.  For a schema with exactly one primary-key field, the UPDATE of     *)
(* generate_update_sql assigns every non-key field exactly once, in        *)
(* declaration order, with placeholders $1..$k, its WHERE clause is the    *)
(* key field with placeholder $(k+1), and the update method of             *)
(* generate_update_method binds the non-key fields in declaration order    *)
(* and the key last.                                                       *)

C1_UpdateSqlShape(sql) ==
    /\ SetAssignments(sql) =
          [j \in 1..Len(NonKeyNames) |->
              <<NonKeyNames[j], " = ", "$", ToString(j)>>]
    /\ WhereConditions(sql) =
          << <<KeyNames[1], " = ", "$", ToString(Len(NonKeyNames) + 1)>> >>

C1_UpdateOrder ==
    KeyCount = 1 =>
       /\ Ran("generate_update_sql") =>
             /\ result.status = "ok"
             /\ C1_UpdateSqlShape(result.stmts["generate_update_sql"])
       /\ Ran("generate_update_method") =>
             /\ result.status = "ok"
             /\ C1_UpdateSqlShape(result.methods["update"].sql)
             /\ result.methods["update"].binds =
                   [j \in 1..FieldCount |->
                       SelfField((NonKeyNames \o KeyNames)[j])]

\* an update method was generated for three fields whose key is the second
C1_Witness ==
    /\ Did("generate_update_method")
    /\ FieldCount = 3
    /\ KeyNames = <<FieldName(2)>>

--------------------------------------------------------------------------
(* C2.  For a schema with no primary-key field, or with two or more,       *)
(* update, delete and select_by_key each fail with the missing-primary-key *)
(* error and return no statement.                                          *)

C2_KeyStatements ==
    {"generate_update_sql", "generate_delete_sql", "generate_select_by_id_sql"}

C2_MissingKeyRejected ==
    (IsNamedStruct /\ FieldCount >= 1 /\ KeyCount # 1) =>
       /\ \A op \in C2_KeyStatements :
             Ran(op) => /\ result.status = "panic"
                        /\ result.msg = "No primary key defined"
                        /\ result.stmts = NoStmts
       /\ Ran("sql_crud_derive") =>
             \A st \in {"update_sql", "delete_sql", "select_key_sql"} :
                 st \notin DOMAIN result.stmts

--------------------------------------------------------------------------
(* C3.  In every generated method that runs a statement, the values bound  *)
(* are as many as the statement's placeholders, and the i-th bound value   *)
(* is the field the i-th placeholder stands for: the i-th column of an     *)
(* INSERT, the i-th assigned or compared column of the other statements.   *)

\* the columns that stand left of a placeholder, in the order of the text
RECURSIVE C3_ComparedColumns(_)
C3_ComparedColumns(sql) ==
    IF Len(sql) < 3 THEN <<>>
    ELSE IF sql[2] = " = " /\ sql[3] \in {"$", "?"}
    THEN <<sql[1]>> \o C3_ComparedColumns(SubSeq(sql, 4, Len(sql)))
    ELSE C3_ComparedColumns(Tail(sql))

\* the field each placeholder of a statement stands for
C3_PlaceholderFields(sql) ==
    IF Has(sql, ") VALUES (")
    THEN [i \in 1..Len(InsertPlaceholders(sql)) |-> InsertColumns(sql)[i][1]]
    ELSE C3_ComparedColumns(sql)

\* a bound value is the value of the field: self's field of that name, or
\* the id argument
C3_BindsField(bind, name) == bind.src = "arg" \/ bind.name = name

C3_MethodBindsMatch(m) ==
    /\ Len(m.binds) = Len(C3_PlaceholderFields(m.sql))
    /\ \A i \in 1..Len(m.binds) :
          C3_BindsField(m.binds[i], C3_PlaceholderFields(m.sql)[i])

C3_BindsMatchPlaceholders ==
    (pc = "done" /\ result.status = "ok") =>
        \A name \in DOMAIN result.methods \ {"init_table"} :
            C3_MethodBindsMatch(result.methods[name])

--------------------------------------------------------------------------
(* C4.  The INSERT of a schema lists its field_count column names in       *)
(* declaration order and field_count placeholders, the i-th being $i in    *)
(* the numbered style of sql_generator.rs and ? in lib.rs.                 *)

C4_InsertShape(sql, placeholder(_)) ==
    /\ InsertColumns(sql) = [i \in 1..FieldCount |-> <<DeclaredNames[i]>>]
    /\ InsertPlaceholders(sql) = [i \in 1..FieldCount |-> placeholder(i)]

C4_InsertColumnsAndPlaceholders ==
    /\ Ran("generate_insert_sql") =>
          /\ result.status = "ok"
          /\ C4_InsertShape(result.stmts["generate_insert_sql"],
                            LAMBDA i : <<"$", ToString(i)>>)
    /\ Did("sql_crud_derive") =>
          C4_InsertShape(result.stmts["insert_sql"], LAMBDA i : <<"?">>)

\* an INSERT was generated for a schema of three fields
C4_Witness ==
    /\ Did("generate_insert_sql")
    /\ FieldCount = 3
    /\ Len(InsertPlaceholders(result.stmts["generate_insert_sql"])) = 3

--------------------------------------------------------------------------
(* C5.  For an entity with no primary-key field, create_table, insert and  *)
(* select_all are still generated, and update, delete and select_by_key    *)
(* are rejected without keeping the three key-free statements back.        *)

C5_KeyFreeStillGenerated ==
    (IsNamedStruct /\ FieldCount >= 1 /\ KeyCount = 0) =>
       /\ Ran("generate_impl_block") =>
             /\ {"init_table", "insert", "find_all"} \subseteq DOMAIN result.methods
             /\ {"update", "delete", "find_by_id"} \cap DOMAIN result.methods = {}
       /\ Ran("generate_select_methods") =>
             /\ "find_all" \in DOMAIN result.methods
             /\ "find_by_id" \notin DOMAIN result.methods
       /\ Ran("sql_crud_derive") =>
             /\ {"create_table_sql", "insert_sql", "select_all_sql"}
                   \subseteq DOMAIN result.stmts
             /\ {"update_sql", "delete_sql", "select_key_sql"}
                   \cap DOMAIN result.stmts = {}

--------------------------------------------------------------------------
(* C6.  For a schema of at least one field, the CREATE TABLE statement     *)
(* starts with CREATE TABLE, has exactly one column definition per field,  *)
(* in field order, with field_count - 1 separators between them and one    *)
(* more before a PRIMARY KEY (...) clause; an inline PRIMARY KEY marker    *)
(* stands only in the column of a key field, the clause names only key     *)
(* fields, and with no key field there is no PRIMARY KEY text at all.      *)

\* the CREATE TABLE statement the last action generated
CreateTableSql ==
    IF result.op = "generate_create_table_sql"
    THEN result.stmts["generate_create_table_sql"]
    ELSE result.stmts["create_table_sql"]

GeneratedCreateTable ==
    Did("generate_create_table_sql") \/ Did("sql_crud_derive")

\* what stands between the parentheses, cut at the separators
C6_Entries(sql) == SplitOn(Between(sql, " (\n", "\n)"), ",\n")

C6_IsKeyClause(entry) == Len(entry) >= 2 /\ entry[2] = "PRIMARY KEY ("

C6_HasKeyClause(sql) ==
    \E e \in 1..Len(C6_Entries(sql)) : C6_IsKeyClause(C6_Entries(sql)[e])

C6_CreateTableShape ==
    (GeneratedCreateTable /\ FieldCount >= 1) =>
       LET sql     == CreateTableSql
           entries == C6_Entries(sql)
           clause  == IF C6_HasKeyClause(sql) THEN 1 ELSE 0
       IN /\ Head(sql) \in {"CREATE TABLE ", "CREATE TABLE IF NOT EXISTS "}
          /\ Count(sql, ",\n") = FieldCount - 1 + clause
          /\ Len(entries) = FieldCount + clause
          /\ \A i \in 1..FieldCount :
                /\ Len(entries[i]) >= 2
                /\ entries[i][1] = "    "
                /\ entries[i][2] = DeclaredNames[i]
                /\ Has(entries[i], " PRIMARY KEY") => IsKey(Declared[i])
          /\ clause = 1 =>
                /\ C6_IsKeyClause(entries[FieldCount + 1])
                /\ KeyCount >= 1
                /\ \A j \in 3..Len(entries[FieldCount + 1]) :
                      entries[FieldCount + 1][j] \in
                          {", ", ")"} \cup {KeyNames[k] : k \in 1..KeyCount}
          /\ KeyCount = 0 =>
                ~Has(sql, " PRIMARY KEY") /\ ~Has(sql, "PRIMARY KEY (")

\* a CREATE TABLE of three columns, one of them a key, with two separators
C6_Witness ==
    /\ Did("generate_create_table_sql")
    /\ FieldCount = 3
    /\ KeyCount = 1
    /\ Count(CreateTableSql, ",\n") = 2

--------------------------------------------------------------------------
(* C7.  In the CREATE TABLE statement every COMMENT literal is opened and  *)
(* closed exactly once and every single quote of a comment stands doubled  *)
(* inside it: read as SQL string literals, the statement holds exactly the *)
(* comments of the fields and of the table, unchanged and in order, and    *)
(* its number of single quotes is even.                                    *)

\* reads a string literal from place i, just after its opening quote: ''
\* is one quote of the text, a single ' closes the literal
RECURSIVE C7_ReadLiteral(_, _, _)
C7_ReadLiteral(s, i, text) ==
    IF i > Len(s) THEN [text |-> text, next |-> i, closed |-> FALSE]
    ELSE IF s[i] # "'" THEN C7_ReadLiteral(s, i + 1, Append(text, s[i]))
    ELSE IF i < Len(s) /\ s[i + 1] = "'"
    THEN C7_ReadLiteral(s, i + 2, Append(text, "'"))
    ELSE [text |-> text, next |-> i + 1, closed |-> TRUE]

\* the string literals of a statement, from place i on
RECURSIVE C7_Literals(_, _)
C7_Literals(s, i) ==
    IF i > Len(s) THEN <<>>
    ELSE IF s[i] = "'"
    THEN LET lit == C7_ReadLiteral(s, i + 1, <<>>) IN
         <<lit>> \o C7_Literals(s, lit.next)
    ELSE C7_Literals(s, i + 1)

\* the comments of the declaration: those of the fields, then the table's
RECURSIVE C7_Flatten(_)
C7_Flatten(options) ==
    IF options = <<>> THEN <<>> ELSE Head(options) \o C7_Flatten(Tail(options))

C7_DeclaredComments ==
    C7_Flatten([i \in 1..FieldCount |-> extract_comment(Declared[i].attrs)])
    \o extract_comment(input.attrs)

C7_CommentsEscaped ==
    GeneratedCreateTable =>
       LET sql      == CreateTableSql
           literals == C7_Literals(sql, 1)
       IN /\ Count(sql, "'") % 2 = 0
          /\ \A i \in 1..Len(literals) : literals[i].closed
          /\ [i \in 1..Len(literals) |-> literals[i].text] = C7_DeclaredComments

\* a CREATE TABLE with a column comment and a table comment that both hold
\* single quotes
C7_Witness ==
    /\ Did("generate_create_table_sql")
    /\ Len(C7_DeclaredComments) >= 2
    /\ \A i \in 1..Len(C7_DeclaredComments) : Has(C7_DeclaredComments[i], "'")
    /\ Has(C7_DeclaredComments[Len(C7_DeclaredComments)], "z")

--------------------------------------------------------------------------
(* C8.  The extractor fails, with no schema, on every declaration that is  *)
(* not a struct with at least one named field: a tuple struct, a unit      *)
(* struct, an enum, a union, a struct with an empty list of named fields.  *)

C8_MalformedRejected ==
    ~(IsNamedStruct /\ FieldCount >= 1) =>
       /\ Ran("parse_struct") => (result.status = "panic" /\ parsed = None)
       /\ Ran("sql_crud_derive") =>
             (result.status = "panic" /\ result.stmts = NoStmts)

--------------------------------------------------------------------------
(* C9.  The comment of a declaration: the value of its explicit comment    *)
(* annotation when it has one with a string value, wherever that stands    *)
(* among the documentation lines; otherwise its documentation lines in     *)
(* declaration order joined by single spaces; otherwise none.              *)

\* the string values of the annotations `path` of the one field of
\* SpecField, in declaration order
StringValues(path) ==
    LET found == SelectSeq(Declared[1].attrs,
                           LAMBDA a : a.path = path /\ a.meta = "NameValueStr")
    IN [i \in 1..Len(found) |-> found[i].value]

\* a line without the white space before its first and after its last
\* character that is not white space
C9_Trimmed(line) ==
    LET black == {i \in 1..Len(line) : line[i] \notin {" ", "\t", "\n"}} IN
    IF black = {} THEN <<>>
    ELSE SubSeq(line, CHOOSE i \in black : \A j \in black : i <= j,
                      CHOOSE i \in black : \A j \in black : i >= j)

C9_Resolved(lines) ==
    LET explicit == StringValues("comment")
        comment  == Unwrap(parsed).fields[1].comment
    IN IF explicit # <<>> THEN comment = Some(explicit[Len(explicit)])
       ELSE IF lines # <<>> THEN comment = Some(Join(lines, <<" ">>))
       ELSE comment = None

\* the claim as stated: the documentation lines as they are written
C9_CommentResolutionAsWritten ==
    pc = "parsed" => C9_Resolved(StringValues("doc"))

\* the claim as amended: each documentation line is first trimmed of the
\* white space around it (and of several explicit comment annotations the
\* last one counts)
C9_CommentResolutionTrimmed ==
    pc = "parsed" =>
        C9_Resolved([i \in 1..Len(StringValues("doc")) |->
                        C9_Trimmed(StringValues("doc")[i])])

\* two documentation lines with white space around them, and between them
\* a comment annotation without a string value
C9_Witness ==
    /\ pc = "parsed"
    /\ Declared[1].attrs =
          << Attr("doc", "NameValueStr", <<"y", " ", "z", " ">>),
             Attr("comment", "List", <<>>),
             Attr("doc", "NameValueStr", <<" ", "x">>) >>
    /\ Unwrap(parsed).fields[1].comment = Some(<<"y", " ", "z", " ", "x">>)

--------------------------------------------------------------------------
(* C10.  The SQL type of a column is its explicit type override when the   *)
(* field has one, and otherwise the Type Mapper's result: the fixed table  *)
(* on the (case-sensitive) name of a named type, any other name unchanged, *)
(* and TEXT for a type that is not a named type.                           *)

C10_TypeMapper(ty) ==
    IF ty.kind # "Path" THEN <<"TEXT">>
    ELSE LET name == ty.segments[Len(ty.segments)]
             table == [ i32 |-> "INT", i64 |-> "BIGINT",
                        String |-> "VARCHAR(255)", bool |-> "BOOLEAN",
                        f32 |-> "FLOAT", f64 |-> "DOUBLE",
                        NaiveDateTime |-> "DATETIME", Uuid |-> "UUID" ]
         IN IF name \in DOMAIN table THEN <<table[name]>> ELSE <<name>>

C10_ColumnSqlType ==
    pc = "parsed" =>
        LET override == StringValues("sql_type")
            sql_type == Unwrap(parsed).fields[1].sql_type
        IN IF override # <<>> THEN sql_type = override[Len(override)]
           ELSE sql_type = C10_TypeMapper(Declared[1].ty)

\* a field of the type `uuid`, which is not the Uuid of the table, without
\* a type override
C10_Witness ==
    /\ pc = "parsed"
    /\ Declared[1].ty = Ty("Path", <<"uuid">>)
    /\ StringValues("sql_type") = <<>>
    /\ Unwrap(parsed).fields[1].sql_type = <<"uuid">>

--------------------------------------------------------------------------
(* The generated init of lib.rs at run time, on a store.                   *)
(*                                                                         *)
(* The store is the collaborator behind db.open(sql).query(db) and         *)
(* .exec(db): it holds the names of its tables.  The existence check       *)
(* returns one row for each table of the name the statement asks for;      *)
(* CREATE TABLE adds the table it names, and fails when that table is      *)
(* there already; any statement may fail with an execution error, which    *)
(* leaves the store as it was.                                             *)

\* the piece check_table_sql starts with
CheckTableHead ==
    "SELECT name FROM sqlite_master \n         WHERE type='table' AND name='"

\* the table name a table-existence check asks for
StoreCheckedName(sql) == Between(sql, CheckTableHead, "'")

\* the rows a table-existence check returns
StoreQueryRows(tables, sql) ==
    Cardinality({t \in tables : t = StoreCheckedName(sql)})

\* the table name of a CREATE TABLE statement
StoreCreatedName(sql) == Between(sql, "CREATE TABLE ", " (\n")

\* the store after a CREATE TABLE statement that succeeded
StoreCreate(tables, sql) == tables \cup {StoreCreatedName(sql)}

\* a call of init that has returned: the statements it ran, in order, the
\* rows of its check (None when the check failed), Ok or Err, and the
\* store before and after it
Returned(executed, rows, outcome, after) ==
    [executed |-> executed, rows |-> rows, outcome |-> outcome,
     before |-> init.before, after |-> after]

\* init can be called: the derive generated it and no call is in progress
InitCallable ==
    /\ pc = "done"
    /\ result.op = "sql_crud_derive"
    /\ result.status = "ok"
    /\ init.pc = "idle"
    /\ Len(log) < MaxCalls

\* if result.rows() == 0, with every row count
init_creates_always(rows) == TRUE

\* lib.rs, init: if result.rows() == 0
init_creates(rows) == rows = 0

\* lib.rs, init: db.open(&Self::check_table_sql()).query(db).await? is Ok
InitQueryOk ==
    /\ InitCallable
    /\ init' = [pc |-> "checked",
                rows |-> StoreQueryRows(store, result.stmts["check_table_sql"]),
                executed |-> <<"check_table_sql">>,
                before |-> store]
    /\ UNCHANGED <<pc, input, parsed, result, store, log>>

\* lib.rs, init: the check fails and `?` returns its error
InitQueryErr ==
    /\ InitCallable
    /\ log' = Append(log, [executed |-> <<"check_table_sql">>, rows |-> None,
                           outcome |-> "err", before |-> store,
                           after |-> store])
    /\ UNCHANGED <<pc, input, parsed, result, store, init>>

\* lib.rs, init: db.open(&Self::create_table_sql()).exec(db).await? is Ok
InitCreateOk ==
    /\ init.pc = "checked"
    /\ init_creates(init.rows)
    /\ StoreCreatedName(result.stmts["create_table_sql"]) \notin store
    /\ store' = StoreCreate(store, result.stmts["create_table_sql"])
    /\ log' = Append(log, Returned(Append(init.executed, "create_table_sql"),
                                   Some(init.rows), "ok", store'))
    /\ init' = InitIdle
    /\ UNCHANGED <<pc, input, parsed, result>>

\* lib.rs, init: create_table fails and `?` returns its error
InitCreateErr ==
    /\ init.pc = "checked"
    /\ init_creates(init.rows)
    /\ log' = Append(log, Returned(Append(init.executed, "create_table_sql"),
                                   Some(init.rows), "err", store))
    /\ init' = InitIdle
    /\ UNCHANGED <<pc, input, parsed, result, store>>

\* lib.rs, init: the table is there, Ok(()) without create_table
InitSkip ==
    /\ init.pc = "checked"
    /\ ~init_creates(init.rows)
    /\ log' = Append(log, Returned(init.executed, Some(init.rows), "ok", store))
    /\ init' = InitIdle
    /\ UNCHANGED <<pc, input, parsed, result, store>>

\* the structs init is run for: one named field, every choice of attributes
RunInputs ==
    { inp \in DeriveInputs :
        inp.data.kind = "StructNamed" /\ Len(inp.data.fields) = 1 }

\* the stores init may find: empty, or holding the table or another one
RunStores == SUBSET { <<"u", "s", "e", "r">>, <<"users">> }

InitRun ==
    /\ pc = "input"
    /\ input \in RunInputs
    /\ parsed = None
    /\ result = NoResult
    /\ store \in RunStores
    /\ init = InitIdle
    /\ log = <<>>

NextRun ==
    \/ SqlCrudDerive
    \/ InitQueryOk
    \/ InitQueryErr
    \/ InitCreateOk
    \/ InitCreateErr
    \/ InitSkip

SpecRun == InitRun /\ [][NextRun]_vars

--------------------------------------------------------------------------
(* C11.  A call of the generated init runs the table-existence check       *)
(* first and runs create_table if and only if the check returned zero      *)
(* rows; so, of calls made one after the other on the same store,          *)
(* create_table is run by the first only, and every later call runs no     *)
(* create_table and leaves the store unchanged.                            *)

RanCreate(call) == Has(call.executed, "create_table_sql")

\* the check first, then create_table exactly when it returned no row
C11_CheckDecidesCreate ==
    \A i \in 1..Len(log) :
        /\ Head(log[i].executed) = "check_table_sql"
        /\ RanCreate(log[i]) <=> log[i].rows = Some(0)
        /\ log[i].executed \in { <<"check_table_sql">>,
                                 <<"check_table_sql", "create_table_sql">> }

C11_LaterCallIdle(j) == ~RanCreate(log[j]) /\ log[j].after = log[j].before

\* the claim as stated: no call after the first runs create_table
C11_CreateByFirstCallOnly ==
    /\ C11_CheckDecidesCreate
    /\ \A j \in 2..Len(log) : C11_LaterCallIdle(j)

\* the claim as amended: no call after one that returned Ok runs
\* create_table, and a call that returned an error left the store unchanged
C11_CreateUntilFirstSuccess ==
    /\ C11_CheckDecidesCreate
    /\ \A i \in 1..Len(log) :
          /\ log[i].outcome = "err" => log[i].after = log[i].before
          /\ log[i].outcome = "ok" =>
                \A j \in (i + 1)..Len(log) : C11_LaterCallIdle(j)

\* three calls on a store without the table: the first created it, the
\* second and the third found it
C11_Witness ==
    /\ Len(log) = 3
    /\ log[1].before = {}
    /\ RanCreate(log[1]) /\ log[1].outcome = "ok"
    /\ log[1].after = {StoreCheckedName(result.stmts["check_table_sql"])}
    /\ \A j \in 2..3 : log[j].outcome = "ok" /\ log[j].rows = Some(1)

--------------------------------------------------------------------------
(* C12.  Whenever update returns a statement, its SET clause holds at      *)
(* least one assignment; a schema whose fields are all primary-key fields  *)
(* never yields an UPDATE with an empty SET clause.                        *)

C12_UpdateSetNotEmpty ==
    /\ Did("generate_update_sql") =>
          SetAssignments(result.stmts["generate_update_sql"]) # <<>>
    /\ Did("generate_update_method") =>
          SetAssignments(result.methods["update"].sql) # <<>>
    /\ (Did("sql_crud_derive") /\ FieldCount >= 1) =>
          SetAssignments(result.stmts["update_sql"]) # <<>>

====
